---- MODULE Spec2Model ----
(***************************************************************************)
(* Model of syrillian's FixedJointConnnector component                     *)
(* (src/syrillian/src/engine/components/fixed_joint.rs) together with the  *)
(* two collaborators it talks to: the object directory (existence and      *)
(* rigid-body lookup) and the physics world's impulse joint registry, a    *)
(* generational arena.                                                     *)
(***************************************************************************)
EXTENDS Integers, Sequences, FiniteSets, TLC

\* ---------------------------------------------------------------- bounds
\* Number of operations explored in one run of the program.
MaxOps == 4

\* ------------------------------------------------------- program constants
\* Point3::origin() and Isometry3::identity(), the defaults of `new`.
Origin == 0
Identity == 0

\* The objects of the scene. Objects 1 and 2 each own a connector; object 3 has
\* been destroyed, so its id no longer exists.
Objects == {1, 2, 3}
Connectors == {1, 2}
Destroyed == {3}
\* 3D points and rigid transforms are abstracted to two values each: the
\* default and one other.
Points == {Origin, 1}
Frames == {Identity, 1}

\* Option<T>: None is the empty sequence, Some(x) the one-element sequence.
None == <<>>
Some(x) == <<x>>

VARIABLES
    exists,     \* exists[o]: GameObjectId::exists() of object o
    hasRb,      \* hasRb[o]: o carries a RigidBodyComponent
    attached,   \* attached[c]: the connector of object c is constructed and not deleted
    conn,       \* conn[c]: the fields of the connector owned by object c
    registry,   \* world.physics.impulse_joint_set
    last,       \* the operation that produced this state, what it returned, and
                \* whether it repeats the operation before it on the same connector
    panicked,   \* an unwrap() on an Err has panicked
    nops        \* operations so far

vars == <<exists, hasRb, attached, conn, registry, last, panicked, nops>>

\* ------------------------------------------------- the joint registry
\* A slot of the arena: free, or occupied by a joint stored under a generation.
FreeEntry == [occupied |-> FALSE, generation |-> 0, value |-> None]

\* `woken` holds the bodies an insert has woken; every body may be asleep at
\* the start.
EmptyArena == [items |-> <<>>, free |-> <<>>, generation |-> 0, woken |-> {}]

\* The slot the next insert takes: the most recently freed one, else a new one.
ArenaNextIndex(a) == IF a.free # <<>> THEN Head(a.free) ELSE Len(a.items) + 1

ArenaInsert(a, value) ==
    LET i == ArenaNextIndex(a)
        e == [occupied |-> TRUE, generation |-> a.generation, value |-> Some(value)]
    IN  [a EXCEPT !.items = IF i > Len(a.items) THEN Append(a.items, e)
                                                 ELSE [a.items EXCEPT ![i] = e],
                  !.free = IF a.free # <<>> THEN Tail(a.free) ELSE <<>>,
                  !.woken = IF value.wake THEN a.woken \cup {value.body1, value.body2}
                                          ELSE a.woken]

ArenaHandle(a) == [index |-> ArenaNextIndex(a), generation |-> a.generation]

ArenaContains(a, h) ==
    /\ h.index \in 1..Len(a.items)
    /\ a.items[h.index].occupied
    /\ a.items[h.index].generation = h.generation

ArenaGet(a, h) == IF ArenaContains(a, h) THEN a.items[h.index].value ELSE None

ArenaRemove(a, h) ==
    IF ArenaContains(a, h)
    THEN [a EXCEPT !.items = [a.items EXCEPT ![h.index] = FreeEntry],
                   !.free = <<h.index>> \o a.free,
                   !.generation = a.generation + 1]
    ELSE a

\* ------------------------------------------------------ the connector
\* FixedJointBuilder::new()...build(): a fixed joint with the four values.
FixedJointBuilder(a1, a2, f1, f2) ==
    [kind |-> "fixed", local_anchor1 |-> a1, local_anchor2 |-> a2,
     local_frame1 |-> f1, local_frame2 |-> f2]

\* A registry entry: the two bodies, the joint data, the wake request of the
\* insert and (history only) the connector that inserted it, 0 for none.
ImpulseJoint(b1, b2, data, wake, by) ==
    [body1 |-> b1, body2 |-> b2, data |-> data, wake |-> wake, by |-> by]

\* Variant: the peer frame does not start at the identity.
new_with_peer_frame(parent) ==
    [parent |-> parent, connected |-> None, handle |-> None,
     local_anchor1 |-> Origin, local_anchor2 |-> Origin,
     local_frame1 |-> Identity, local_frame2 |-> 1]

new(parent) ==
    [parent |-> parent, connected |-> None, handle |-> None,
     local_anchor1 |-> Origin, local_anchor2 |-> Origin,
     local_frame1 |-> Identity, local_frame2 |-> Identity]

get_component(o) == IF exists[o] /\ hasRb[o] THEN Some(o) ELSE None

TypeOK ==
    /\ exists \in [Objects -> BOOLEAN]
    /\ hasRb \in [Objects -> BOOLEAN]
    /\ attached \in [Connectors -> BOOLEAN]
    /\ panicked \in BOOLEAN
    /\ nops \in 0..MaxOps

Init ==
    /\ exists = [o \in Objects |-> o \notin Destroyed]
    /\ hasRb \in [Objects -> BOOLEAN]
    /\ \A o \in Objects : hasRb[o] => exists[o]
    /\ attached = [c \in Connectors |-> TRUE]
    /\ conn = [c \in Connectors |-> new(c)]
    /\ registry = EmptyArena
    /\ last = [op |-> "new", c |-> 0, arg |-> None, ret |-> "Self", joint |-> None,
               again |-> FALSE]
    /\ panicked = FALSE
    /\ nops = 0

\* ------------------------------------------------------ the operations
\* Each takes the connector `cn` and the registry `reg` and yields what the
\* call returns (`ret`, and `joint` for the accessors) and what it leaves behind.
Outcome(ret, joint, cn, reg) == [ret |-> ret, joint |-> joint, conn |-> cn, reg |-> reg]

IsPanic(ret) == ret \in {"panic(NoParentRigidBody)", "panic(NoConnectorRigidBody)"}

\* Variant: the rigid bodies are resolved before the peer's existence is checked.
try_connect_to_resolves_first(cn, reg, body) ==
    IF get_component(cn.parent) = None
         THEN Outcome("panic(NoParentRigidBody)", None, cn, reg)
    ELSE IF ~exists[body] THEN Outcome("Err(InvalidConnector)", None, cn, reg)
    ELSE IF get_component(body) = None
         THEN Outcome("panic(NoConnectorRigidBody)", None, cn, reg)
    ELSE Outcome("Ok", None,
                 [cn EXCEPT !.connected = Some(body), !.handle = Some(ArenaHandle(reg))],
                 ArenaInsert(reg, ImpulseJoint(cn.parent, body,
                     FixedJointBuilder(cn.local_anchor1, cn.local_anchor2,
                                       cn.local_frame1, cn.local_frame2),
                     TRUE, cn.parent)))

\* Variant: the builder is given the owner's anchor for both anchors.
try_connect_to_one_anchor(cn, reg, body) ==
    IF ~exists[body] THEN Outcome("Err(InvalidConnector)", None, cn, reg)
    ELSE IF get_component(cn.parent) = None
         THEN Outcome("panic(NoParentRigidBody)", None, cn, reg)
    ELSE IF get_component(body) = None
         THEN Outcome("panic(NoConnectorRigidBody)", None, cn, reg)
    ELSE Outcome("Ok", None,
                 [cn EXCEPT !.connected = Some(body), !.handle = Some(ArenaHandle(reg))],
                 ArenaInsert(reg, ImpulseJoint(cn.parent, body,
                     FixedJointBuilder(cn.local_anchor1, cn.local_anchor1,
                                       cn.local_frame1, cn.local_frame2),
                     TRUE, cn.parent)))

\* Variant: a joint the connector already holds is removed before the new one
\* is inserted.
try_connect_to_disconnects_first(cn, reg, body) ==
    IF ~exists[body] THEN Outcome("Err(InvalidConnector)", None, cn, reg)
    ELSE IF get_component(cn.parent) = None
         THEN Outcome("panic(NoParentRigidBody)", None, cn, reg)
    ELSE IF get_component(body) = None
         THEN Outcome("panic(NoConnectorRigidBody)", None, cn, reg)
    ELSE LET reg0 == IF cn.handle # None THEN ArenaRemove(reg, cn.handle[1]) ELSE reg
         IN  Outcome("Ok", None,
                 [cn EXCEPT !.connected = Some(body), !.handle = Some(ArenaHandle(reg0))],
                 ArenaInsert(reg0, ImpulseJoint(cn.parent, body,
                     FixedJointBuilder(cn.local_anchor1, cn.local_anchor2,
                                       cn.local_frame1, cn.local_frame2),
                     TRUE, cn.parent)))

\* Variant: the joint is inserted without the wake request.
try_connect_to_without_wake(cn, reg, body) ==
    IF ~exists[body] THEN Outcome("Err(InvalidConnector)", None, cn, reg)
    ELSE IF get_component(cn.parent) = None
         THEN Outcome("panic(NoParentRigidBody)", None, cn, reg)
    ELSE IF get_component(body) = None
         THEN Outcome("panic(NoConnectorRigidBody)", None, cn, reg)
    ELSE Outcome("Ok", None,
                 [cn EXCEPT !.connected = Some(body), !.handle = Some(ArenaHandle(reg))],
                 ArenaInsert(reg, ImpulseJoint(cn.parent, body,
                     FixedJointBuilder(cn.local_anchor1, cn.local_anchor2,
                                       cn.local_frame1, cn.local_frame2),
                     FALSE, cn.parent)))

try_connect_to(cn, reg, body) ==
    IF ~exists[body] THEN Outcome("Err(InvalidConnector)", None, cn, reg)
    ELSE IF get_component(cn.parent) = None
         THEN Outcome("panic(NoParentRigidBody)", None, cn, reg)
    ELSE IF get_component(body) = None
         THEN Outcome("panic(NoConnectorRigidBody)", None, cn, reg)
    ELSE LET self_rb == get_component(cn.parent)[1]
             other_rb == get_component(body)[1]
             joint == FixedJointBuilder(cn.local_anchor1, cn.local_anchor2,
                                        cn.local_frame1, cn.local_frame2)
             handle == ArenaHandle(reg)
         IN  Outcome("Ok", None,
                     [cn EXCEPT !.connected = Some(body), !.handle = Some(handle)],
                     ArenaInsert(reg, ImpulseJoint(self_rb, other_rb, joint, TRUE, cn.parent)))

\* `if let Err(e) = self.try_connect_to(body) { warn!("{e}") }`
connect_to(cn, reg, body) ==
    LET r == try_connect_to(cn, reg, body)
    IN  IF IsPanic(r.ret) THEN r
        ELSE IF r.ret = "Ok" THEN Outcome("()", None, r.conn, r.reg)
        ELSE Outcome("() warned", None, r.conn, r.reg)

\* Variant: only the handle is cleared.
disconnect_keeps_connected(cn, reg) ==
    IF cn.handle # None
    THEN Outcome("()", None, [cn EXCEPT !.handle = None], ArenaRemove(reg, cn.handle[1]))
    ELSE Outcome("()", None, cn, reg)

\* Variant: the fields are cleared but the registry entry is left in place.
disconnect_without_remove(cn, reg) ==
    IF cn.handle # None
    THEN Outcome("()", None, [cn EXCEPT !.handle = None, !.connected = None], reg)
    ELSE Outcome("()", None, cn, reg)

\* Variant: the handle is unwrapped instead of matched.
disconnect_unwraps_handle(cn, reg) ==
    IF cn.handle # None
    THEN Outcome("()", None, [cn EXCEPT !.handle = None, !.connected = None],
                 ArenaRemove(reg, cn.handle[1]))
    ELSE Outcome("panic(handle is None)", None, cn, reg)

\* Variant: the connector is put back to its constructed state.
disconnect_resets_cache(cn, reg) ==
    IF cn.handle # None
    THEN Outcome("()", None, new(cn.parent), ArenaRemove(reg, cn.handle[1]))
    ELSE Outcome("()", None, cn, reg)

disconnect(cn, reg) ==
    IF cn.handle # None
    THEN Outcome("()", None, [cn EXCEPT !.handle = None, !.connected = None],
                 ArenaRemove(reg, cn.handle[1]))
    ELSE Outcome("()", None, cn, reg)

delete(cn, reg) == disconnect(cn, reg)

as_fixed(data) == IF data.kind = "fixed" THEN Some(data) ELSE None

\* Variant: the slot is looked up by its index alone, whatever its generation.
joint_by_index(cn, reg) ==
    IF cn.handle = None THEN None
    ELSE IF cn.handle[1].index \in 1..Len(reg.items) /\ reg.items[cn.handle[1].index].occupied
         THEN as_fixed(reg.items[cn.handle[1].index].value[1].data)
    ELSE None

joint(cn, reg) ==
    IF cn.handle = None THEN None
    ELSE IF ArenaGet(reg, cn.handle[1]) = None THEN None
    ELSE as_fixed(ArenaGet(reg, cn.handle[1])[1].data)

\* Variant: the slot is looked up by its index alone, whatever its generation.
joint_mut_by_index(cn, reg) ==
    IF cn.handle = None THEN None
    ELSE IF cn.handle[1].index \in 1..Len(reg.items) /\ reg.items[cn.handle[1].index].occupied
         THEN IF as_fixed(reg.items[cn.handle[1].index].value[1].data) = None THEN None
              ELSE Some(cn.handle[1].index)
    ELSE None

\* The mutable reference is modelled by the slot it points into.
joint_mut(cn, reg) ==
    IF cn.handle = None THEN None
    ELSE IF ArenaGet(reg, cn.handle[1]) = None THEN None
    ELSE IF as_fixed(ArenaGet(reg, cn.handle[1])[1].data) = None THEN None
    ELSE Some(cn.handle[1].index)

\* A write through the reference joint_mut returned.
WriteJoint(reg, ref, data) ==
    [reg EXCEPT !.items[ref].value = Some([reg.items[ref].value[1] EXCEPT !.data = data])]

JointAt(reg, ref) == reg.items[ref].value[1].data

\* Variant: the owner-side setter moves both anchors.
set_local_anchor1_both_anchors(cn, reg, anchor) ==
    LET cn2 == [cn EXCEPT !.local_anchor1 = anchor, !.local_anchor2 = anchor]
        ref == joint_mut(cn2, reg)
    IN  IF ref # None
        THEN Outcome("()", None, cn2,
                     WriteJoint(reg, ref[1], [JointAt(reg, ref[1]) EXCEPT
                                    !.local_anchor1 = anchor, !.local_anchor2 = anchor]))
        ELSE Outcome("()", None, cn2, reg)

set_local_anchor1(cn, reg, anchor) ==
    LET cn2 == [cn EXCEPT !.local_anchor1 = anchor]
        ref == joint_mut(cn2, reg)
    IN  IF ref # None
        THEN Outcome("()", None, cn2,
                     WriteJoint(reg, ref[1], [JointAt(reg, ref[1]) EXCEPT !.local_anchor1 = anchor]))
        ELSE Outcome("()", None, cn2, reg)

\* Variant: only the cached value is updated.
set_local_anchor2_cached_only(cn, reg, anchor) ==
    Outcome("()", None, [cn EXCEPT !.local_anchor2 = anchor], reg)

set_local_anchor2(cn, reg, anchor) ==
    LET cn2 == [cn EXCEPT !.local_anchor2 = anchor]
        ref == joint_mut(cn2, reg)
    IN  IF ref # None
        THEN Outcome("()", None, cn2,
                     WriteJoint(reg, ref[1], [JointAt(reg, ref[1]) EXCEPT !.local_anchor2 = anchor]))
        ELSE Outcome("()", None, cn2, reg)

\* Variant: the live joint's peer frame is written instead of its owner frame.
set_local_frame1_writes_frame2(cn, reg, frame) ==
    LET cn2 == [cn EXCEPT !.local_frame1 = frame]
        ref == joint_mut(cn2, reg)
    IN  IF ref # None
        THEN Outcome("()", None, cn2,
                     WriteJoint(reg, ref[1], [JointAt(reg, ref[1]) EXCEPT !.local_frame2 = frame]))
        ELSE Outcome("()", None, cn2, reg)

set_local_frame1(cn, reg, frame) ==
    LET cn2 == [cn EXCEPT !.local_frame1 = frame]
        ref == joint_mut(cn2, reg)
    IN  IF ref # None
        THEN Outcome("()", None, cn2,
                     WriteJoint(reg, ref[1], [JointAt(reg, ref[1]) EXCEPT !.local_frame1 = frame]))
        ELSE Outcome("()", None, cn2, reg)

\* Variant: the value is stored only when there is a live joint to receive it.
set_local_frame2_live_only(cn, reg, frame) ==
    LET ref == joint_mut(cn, reg)
    IN  IF ref # None
        THEN Outcome("()", None, [cn EXCEPT !.local_frame2 = frame],
                     WriteJoint(reg, ref[1], [JointAt(reg, ref[1]) EXCEPT !.local_frame2 = frame]))
        ELSE Outcome("()", None, cn, reg)

set_local_frame2(cn, reg, frame) ==
    LET cn2 == [cn EXCEPT !.local_frame2 = frame]
        ref == joint_mut(cn2, reg)
    IN  IF ref # None
        THEN Outcome("()", None, cn2,
                     WriteJoint(reg, ref[1], [JointAt(reg, ref[1]) EXCEPT !.local_frame2 = frame]))
        ELSE Outcome("()", None, cn2, reg)

\* ------------------------------------------------------------- actions
\* One call of `op` on the attached connector c, with outcome r.
Call(op, c, arg, r) ==
    /\ nops < MaxOps
    /\ ~panicked
    /\ attached[c]
    /\ conn' = [conn EXCEPT ![c] = r.conn]
    /\ registry' = r.reg
    /\ last' = [op |-> op, c |-> c, arg |-> arg, ret |-> r.ret, joint |-> r.joint,
                again |-> (last.op = op /\ last.c = c)]
    /\ panicked' = IsPanic(r.ret)
    /\ nops' = nops + 1
    /\ UNCHANGED <<exists, hasRb>>

New(c) ==
    /\ nops < MaxOps
    /\ ~panicked
    /\ ~attached[c]
    /\ attached' = [attached EXCEPT ![c] = TRUE]
    /\ conn' = [conn EXCEPT ![c] = new(c)]
    /\ last' = [op |-> "new", c |-> c, arg |-> None, ret |-> "Self", joint |-> None,
                again |-> FALSE]
    /\ nops' = nops + 1
    /\ UNCHANGED <<exists, hasRb, registry, panicked>>

TryConnectTo(c, body) ==
    /\ Call("try_connect_to", c, Some(body), try_connect_to(conn[c], registry, body))
    /\ UNCHANGED attached

ConnectTo(c, body) ==
    /\ Call("connect_to", c, Some(body), connect_to(conn[c], registry, body))
    /\ UNCHANGED attached

Disconnect(c) ==
    /\ Call("disconnect", c, None, disconnect(conn[c], registry))
    /\ UNCHANGED attached

\* The framework's teardown: the delete hook runs, then the component is gone.
Delete(c) ==
    /\ Call("delete", c, None, delete(conn[c], registry))
    /\ attached' = [attached EXCEPT ![c] = FALSE]

Joint(c) ==
    /\ Call("joint", c, None,
            Outcome("Option", joint(conn[c], registry), conn[c], registry))
    /\ UNCHANGED attached

JointMut(c) ==
    /\ Call("joint_mut", c, None,
            Outcome("Option",
                    IF joint_mut(conn[c], registry) = None THEN None
                    ELSE Some(JointAt(registry, joint_mut(conn[c], registry)[1])),
                    conn[c], registry))
    /\ UNCHANGED attached

SetLocalAnchor1(c, anchor) ==
    /\ Call("set_local_anchor1", c, Some(anchor), set_local_anchor1(conn[c], registry, anchor))
    /\ UNCHANGED attached

SetLocalAnchor2(c, anchor) ==
    /\ Call("set_local_anchor2", c, Some(anchor), set_local_anchor2(conn[c], registry, anchor))
    /\ UNCHANGED attached

SetLocalFrame1(c, frame) ==
    /\ Call("set_local_frame1", c, Some(frame), set_local_frame1(conn[c], registry, frame))
    /\ UNCHANGED attached

SetLocalFrame2(c, frame) ==
    /\ Call("set_local_frame2", c, Some(frame), set_local_frame2(conn[c], registry, frame))
    /\ UNCHANGED attached

\* ---- the rest of the engine, which shares the registry with the connectors
\* Another component inserts a joint of another kind between two bodies.
OtherJoint ==
    [kind |-> "other", local_anchor1 |-> Origin, local_anchor2 |-> Origin,
     local_frame1 |-> Identity, local_frame2 |-> Identity]

ExternalInsert(b1, b2) ==
    /\ nops < MaxOps
    /\ b1 # b2
    /\ ~panicked
    /\ get_component(b1) # None /\ get_component(b2) # None
    /\ registry' = ArenaInsert(registry, ImpulseJoint(b1, b2, OtherJoint, TRUE, 0))
    /\ last' = [op |-> "external_insert", c |-> 0, arg |-> None, ret |-> "()", joint |-> None,
                again |-> FALSE]
    /\ nops' = nops + 1
    /\ UNCHANGED <<exists, hasRb, attached, conn, panicked>>

\* An entry is removed behind the connectors' back (a body leaves the world).
ExternalRemove(i) ==
    /\ nops < MaxOps
    /\ ~panicked
    /\ registry.items[i].occupied
    /\ registry' = ArenaRemove(registry, [index |-> i, generation |-> registry.items[i].generation])
    /\ last' = [op |-> "external_remove", c |-> 0, arg |-> Some(i), ret |-> "()", joint |-> None,
                again |-> FALSE]
    /\ nops' = nops + 1
    /\ UNCHANGED <<exists, hasRb, attached, conn, panicked>>

Next ==
    \/ \E c \in Connectors : New(c)
    \/ \E c \in Connectors, body \in Objects : TryConnectTo(c, body)
    \/ \E c \in Connectors, body \in Objects : ConnectTo(c, body)
    \/ \E c \in Connectors : Disconnect(c)
    \/ \E c \in Connectors : Delete(c)
    \/ \E c \in Connectors : Joint(c)
    \/ \E c \in Connectors : JointMut(c)
    \/ \E c \in Connectors, anchor \in Points : SetLocalAnchor1(c, anchor)
    \/ \E c \in Connectors, anchor \in Points : SetLocalAnchor2(c, anchor)
    \/ \E c \in Connectors, frame \in Frames : SetLocalFrame1(c, frame)
    \/ \E c \in Connectors, frame \in Frames : SetLocalFrame2(c, frame)
    \/ \E b1 \in Objects, b2 \in Objects : ExternalInsert(b1, b2)
    \/ \E i \in 1..Len(registry.items) : ExternalRemove(i)

Spec == Init /\ [][Next]_vars
\* ================================================================ claims
\* The slots holding an entry that connector c inserted.
EntriesBy(c) ==
    {i \in 1..Len(registry.items) :
        registry.items[i].occupied /\ registry.items[i].value[1].by = c}

\* The step just taken was a call of `op` (every operation advances nops).
Called(op) == nops' = nops + 1 /\ last'.op = op

Connected(cn) == cn.connected # None \/ cn.handle # None

\* The fixed joint the connector's four cached values describe.
CachedJoint(cn) ==
    FixedJointBuilder(cn.local_anchor1, cn.local_anchor2, cn.local_frame1, cn.local_frame2)

\* C1: after every operation, in any sequence, a connector's `connected` is
\* Some exactly when its `handle` is Some.
C1_PeerIffHandle ==
    \A c \in Connectors : (conn[c].connected # None) <=> (conn[c].handle # None)

C1_Witness ==
    /\ last.op = "disconnect"
    /\ \E c \in Connectors : c # last.c /\ conn[c].connected # None /\ conn[c].handle # None
    /\ conn[last.c].connected = None /\ conn[last.c].handle = None
    /\ registry.generation > 0

\* C2: once the delete hook of a connector has completed, the registry holds
\* no entry that this connector inserted.
C2_NoOrphanAfterDelete ==
    last.op = "delete" => EntriesBy(last.c) = {}

\* C3: the registry never holds more than one entry inserted by the same
\* connector.
C3_AtMostOneJoint ==
    \A c \in Connectors : Cardinality(EntriesBy(c)) <= 1

\* C4: try_connect_to with a peer that does not exist returns InvalidConnector
\* and changes neither the connectors nor the registry, whatever the owner's
\* rigid body and the connector's state.
C4_InvalidConnector ==
    [][(Called("try_connect_to") /\ ~exists[last'.arg[1]])
          => (/\ last'.ret = "Err(InvalidConnector)"
              /\ conn' = conn
              /\ registry' = registry)]_vars

C4_Witness ==
    /\ last.op = "try_connect_to"
    /\ last.ret = "Err(InvalidConnector)"
    /\ conn[last.c].handle # None
    /\ joint(conn[last.c], registry) # None

\* C5: try_connect_to with an existing peer, on an owner without a rigid body,
\* returns NoParentRigidBody to the caller and changes nothing.
C5_NoParentRigidBody ==
    [][(Called("try_connect_to") /\ exists[last'.arg[1]]
            /\ get_component(last'.c) = None)
          => (/\ last'.ret = "Err(NoParentRigidBody)"
              /\ conn' = conn
              /\ registry' = registry)]_vars

\* C6: try_connect_to with an existing peer without a rigid body, on an owner
\* that has one, returns NoConnectorRigidBody to the caller; nothing is
\* inserted, the connector is unchanged and joint() stays absent.
C6_NoConnectorRigidBody ==
    [][(Called("try_connect_to") /\ exists[last'.arg[1]]
            /\ get_component(last'.c) # None
            /\ get_component(last'.arg[1]) = None)
          => (/\ last'.ret = "Err(NoConnectorRigidBody)"
              /\ conn' = conn
              /\ registry' = registry
              /\ (joint(conn[last'.c], registry) = None
                    => joint(conn'[last'.c], registry') = None))]_vars

\* C7: connect_to completes normally for every peer, and a failed attempt on an
\* unconnected connector leaves it unconnected.
C7_ConnectToNeverFails ==
    [][Called("connect_to")
          => (/\ ~panicked'
              /\ last'.ret \in {"()", "() warned"}
              /\ (last'.ret = "() warned" /\ ~Connected(conn[last'.c])
                    => ~Connected(conn'[last'.c])))]_vars

\* C8: after a successful try_connect_to, joint() is present and its two
\* anchors and two frames are the four values cached when the call was made.
C8_JointFromCache ==
    [][(Called("try_connect_to") /\ last'.ret = "Ok")
          => joint(conn'[last'.c], registry') = Some(CachedJoint(conn[last'.c]))]_vars

C8_Witness ==
    /\ last.op = "try_connect_to"
    /\ last.ret = "Ok"
    /\ conn[last.c].local_anchor1 # conn[last.c].local_anchor2
    /\ conn[last.c].local_frame1 # conn[last.c].local_frame2
    /\ joint(conn[last.c], registry) # None

\* C9: whenever joint() is present, the live joint's anchors and frames are the
\* connector's cached values.
C9_CacheMatchesJoint ==
    \A c \in Connectors :
        joint(conn[c], registry) # None
            => joint(conn[c], registry) = Some(CachedJoint(conn[c]))

C9_Witness ==
    /\ last.op = "set_local_anchor2"
    /\ last.arg # Some(Origin)
    /\ joint(conn[last.c], registry) # None
    /\ joint(conn[last.c], registry)[1].local_anchor2 = last.arg[1]
    /\ joint(conn[last.c], registry)[1].local_anchor1 = Origin

\* C10: joint() and joint_mut() are present exactly when the handle is set,
\* the registry holds an entry under that very handle and the entry is a fixed
\* joint, and then they yield that entry; an entry that was removed, or whose
\* slot was given to another joint, yields absence.
C10_AccessorPresence ==
    last.op \in {"joint", "joint_mut"} =>
        LET h == conn[last.c].handle
        IN  IF /\ h # None
               /\ ArenaContains(registry, h[1])
               /\ registry.items[h[1].index].value[1].data.kind = "fixed"
            THEN last.joint = Some(registry.items[h[1].index].value[1].data)
            ELSE last.joint = None

C10_Witness ==
    /\ last.op \in {"joint", "joint_mut"}
    /\ conn[last.c].handle # None
    /\ conn[last.c].handle[1].index \in 1..Len(registry.items)
    /\ registry.items[conn[last.c].handle[1].index].occupied
    /\ ~ArenaContains(registry, conn[last.c].handle[1])
    /\ last.joint = None
\* The occupied slots of a registry, and the slot a handle designates in it.
OccupiedSlots(reg) == {i \in 1..Len(reg.items) : reg.items[i].occupied}

HandleSlot(reg, h) == IF ArenaContains(reg, h) THEN {h.index} ELSE {}

\* C11: disconnect on a connected connector clears connected and handle and
\* removes the entry under the handle: afterwards the registry does not hold
\* that handle and joint() is absent.
C11_DisconnectRemoves ==
    [][(Called("disconnect") /\ conn[last'.c].handle # None)
          => (/\ conn'[last'.c].handle = None
              /\ conn'[last'.c].connected = None
              /\ ~ArenaContains(registry', conn[last'.c].handle[1])
              /\ OccupiedSlots(registry')
                    = OccupiedSlots(registry) \ HandleSlot(registry, conn[last'.c].handle[1])
              /\ joint(conn'[last'.c], registry') = None)]_vars

\* Two operations, the second a disconnect that removed an entry: the first
\* was this connector's connect.
C11_Witness ==
    /\ last.op = "disconnect"
    /\ nops = 2
    /\ registry.generation = 1
    /\ registry.free = <<1>>
    /\ conn[last.c].handle = None

\* C12: disconnect always returns normally; a disconnect that directly follows
\* a disconnect of the same connector, or one on an unconnected connector,
\* changes neither the connectors nor the registry.
C12_DisconnectIdempotent ==
    [][Called("disconnect")
          => (/\ last'.ret = "()"
              /\ ~panicked'
              /\ ((last.op = "disconnect" /\ last.c = last'.c) \/ ~Connected(conn[last'.c]))
                    => (conn' = conn /\ registry' = registry))]_vars

\* A second disconnect in a row, after a first that removed an entry while
\* another joint is still in the registry.
C12_Witness ==
    /\ last.op = "disconnect"
    /\ last.again
    /\ registry.generation > 0
    /\ \E i \in 1..Len(registry.items) : registry.items[i].occupied
\* The four setters and the value each governs.
SetterField ==
    [set_local_anchor1 |-> "local_anchor1", set_local_anchor2 |-> "local_anchor2",
     set_local_frame1 |-> "local_frame1", set_local_frame2 |-> "local_frame2"]

Fields == {"local_anchor1", "local_anchor2", "local_frame1", "local_frame2"}

\* The step just taken was a call of one of the four setters.
SetterCalled == nops' = nops + 1 /\ last'.op \in DOMAIN SetterField

\* C13: a setter called while a live joint exists leaves its argument both in
\* the cached value and in the matching field of the live joint, which joint()
\* reports right after the call.
C13_SetterUpdatesLiveJoint ==
    [][(SetterCalled /\ joint(conn[last'.c], registry) # None)
          => (/\ conn'[last'.c][SetterField[last'.op]] = last'.arg[1]
              /\ joint(conn'[last'.c], registry') # None
              /\ joint(conn'[last'.c], registry')[1][SetterField[last'.op]]
                    = last'.arg[1])]_vars

C13_Witness ==
    /\ last.op = "set_local_frame1"
    /\ last.arg = Some(1)
    /\ joint(conn[last.c], registry) # None
    /\ joint(conn[last.c], registry)[1].local_frame1 = 1
    /\ joint(conn[last.c], registry)[1].local_frame2 = Identity
    /\ conn[last.c].local_frame1 = 1

\* C14: a setter called on an unconnected connector stores its argument in the
\* cached value and touches neither the registry nor connected/handle; a cached
\* value changes only by its own setter (or a new construction); and the joint
\* of a successful try_connect_to carries the cached values of that moment, so
\* it carries the value set most recently.
C14_CachedValueUsedOnConnect ==
    [][/\ (SetterCalled /\ ~Connected(conn[last'.c]))
            => (/\ conn'[last'.c][SetterField[last'.op]] = last'.arg[1]
                /\ registry' = registry
                /\ ~Connected(conn'[last'.c]))
       /\ \A c \in Connectors : \A f \in Fields :
            conn'[c][f] # conn[c][f]
                => (/\ last'.c = c
                    /\ \/ last'.op = "new"
                       \/ (/\ last'.op \in DOMAIN SetterField
                           /\ SetterField[last'.op] = f
                           /\ conn'[c][f] = last'.arg[1]))
       /\ (Called("try_connect_to") /\ last'.ret = "Ok")
            => (/\ joint(conn'[last'.c], registry') # None
                /\ \A f \in Fields :
                     joint(conn'[last'.c], registry')[1][f] = conn[last'.c][f])]_vars

\* Two operations, the second a successful connect whose joint carries a
\* non-default peer frame: the first was set_local_frame2 while unconnected.
C14_Witness ==
    /\ nops = 2
    /\ last.op = "try_connect_to"
    /\ last.ret = "Ok"
    /\ joint(conn[last.c], registry) # None
    /\ joint(conn[last.c], registry)[1].local_frame2 # Identity
\* A connector as constructed: unconnected, anchors at the origin, frames identity.
Fresh(cn) ==
    /\ cn.connected = None /\ cn.handle = None
    /\ cn.local_anchor1 = Origin /\ cn.local_anchor2 = Origin
    /\ cn.local_frame1 = Identity /\ cn.local_frame2 = Identity

\* C15: a connector is constructed unconnected with both anchors at the origin
\* and both frames identity, and a successful try_connect_to on a connector in
\* that state yields a joint() with origin anchors and identity frames.
C15_FreshConnector ==
    [][/\ nops = 0 => \A c \in Connectors : Fresh(conn[c])
       /\ Called("new") => Fresh(conn'[last'.c])
       /\ (Called("try_connect_to") /\ last'.ret = "Ok" /\ Fresh(conn[last'.c]))
            => joint(conn'[last'.c], registry')
                 = Some(FixedJointBuilder(Origin, Origin, Identity, Identity))]_vars

\* The first operation after construction is a successful connect.
C15_Witness ==
    /\ nops = 1
    /\ last.op = "try_connect_to"
    /\ last.ret = "Ok"
    /\ Len(registry.items) = 1
    /\ joint(conn[last.c], registry) = Some(FixedJointBuilder(Origin, Origin, Identity, Identity))

\* C16: a successful try_connect_to on a connector that holds a handle leaves
\* the entry under the old handle in the registry as it was, inserts one new
\* entry, and overwrites connected and handle with the new peer and the new
\* handle.
C16_ReconnectKeepsOldEntry ==
    [][(Called("try_connect_to") /\ last'.ret = "Ok" /\ conn[last'.c].handle # None)
          => (/\ ArenaContains(registry, conn[last'.c].handle[1])
                   => (/\ ArenaContains(registry', conn[last'.c].handle[1])
                       /\ ArenaGet(registry', conn[last'.c].handle[1])
                            = ArenaGet(registry, conn[last'.c].handle[1]))
              /\ conn'[last'.c].handle # None
              /\ conn'[last'.c].handle # conn[last'.c].handle
              /\ ~ArenaContains(registry, conn'[last'.c].handle[1])
              /\ ArenaContains(registry', conn'[last'.c].handle[1])
              /\ OccupiedSlots(registry')
                   = OccupiedSlots(registry) \cup {conn'[last'.c].handle[1].index}
              /\ Cardinality(OccupiedSlots(registry'))
                   = Cardinality(OccupiedSlots(registry)) + 1
              /\ conn'[last'.c].connected = last'.arg)]_vars

\* A reconnect to another peer: the entry of the first connect, to a different
\* body, is still in the registry beside the one the handle now names.
C16_Witness ==
    /\ last.op = "try_connect_to"
    /\ last.ret = "Ok"
    /\ Cardinality(EntriesBy(last.c)) = 2
    /\ \E i \in EntriesBy(last.c) :
          /\ i # conn[last.c].handle[1].index
          /\ Some(registry.items[i].value[1].body2) # conn[last.c].connected
\* C17: a setter changes one cached value of its connector and, when that
\* connector has a live joint, the matching field of that joint; the other
\* cached values, connected, handle, the other connectors, the other fields of
\* the joint, every other entry and the registry's membership stay as they were.
C17_SetterGovernsOneValue ==
    [][SetterCalled
          => (/\ \A c \in Connectors \ {last'.c} : conn'[c] = conn[c]
              /\ \A f \in Fields \ {SetterField[last'.op]} :
                    conn'[last'.c][f] = conn[last'.c][f]
              /\ conn'[last'.c].connected = conn[last'.c].connected
              /\ conn'[last'.c].handle = conn[last'.c].handle
              /\ conn'[last'.c].parent = conn[last'.c].parent
              /\ Len(registry'.items) = Len(registry.items)
              /\ registry'.free = registry.free
              /\ registry'.generation = registry.generation
              /\ \A i \in 1..Len(registry.items) :
                    IF conn[last'.c].handle # None
                       /\ i \in HandleSlot(registry, conn[last'.c].handle[1])
                    THEN /\ registry'.items[i].occupied
                         /\ registry'.items[i].generation = registry.items[i].generation
                         /\ registry'.items[i].value[1].body1 = registry.items[i].value[1].body1
                         /\ registry'.items[i].value[1].body2 = registry.items[i].value[1].body2
                         /\ registry'.items[i].value[1].by = registry.items[i].value[1].by
                         /\ registry'.items[i].value[1].data.kind
                              = registry.items[i].value[1].data.kind
                         /\ \A f \in Fields \ {SetterField[last'.op]} :
                              registry'.items[i].value[1].data[f]
                                = registry.items[i].value[1].data[f]
                    ELSE registry'.items[i] = registry.items[i])]_vars

\* The owner anchor of a live joint was moved; the joint's owner frame, set
\* earlier to a non-default value, and its peer anchor are as before.
C17_Witness ==
    /\ last.op = "set_local_anchor1"
    /\ last.arg = Some(1)
    /\ joint(conn[last.c], registry) # None
    /\ joint(conn[last.c], registry)[1].local_anchor1 = 1
    /\ joint(conn[last.c], registry)[1].local_anchor2 = Origin
    /\ joint(conn[last.c], registry)[1].local_frame1 # Identity
    /\ conn[last.c].local_anchor2 = Origin

\* C18: a successful try_connect_to inserts its joint between the owner's body
\* and the peer's body with the wake request set, and both bodies are woken
\* when the call completes.
C18_ConnectWakesBoth ==
    [][(Called("try_connect_to") /\ last'.ret = "Ok")
          => (/\ conn'[last'.c].handle # None
              /\ ArenaContains(registry', conn'[last'.c].handle[1])
              /\ ArenaGet(registry', conn'[last'.c].handle[1])[1].body1
                    = get_component(last'.c)[1]
              /\ ArenaGet(registry', conn'[last'.c].handle[1])[1].body2
                    = get_component(last'.arg[1])[1]
              /\ ArenaGet(registry', conn'[last'.c].handle[1])[1].wake
              /\ get_component(last'.c)[1] \in registry'.woken
              /\ get_component(last'.arg[1])[1] \in registry'.woken)]_vars

\* The first operation is a connect between two different bodies, neither woken
\* before it.
C18_Witness ==
    /\ nops = 1
    /\ last.op = "try_connect_to"
    /\ last.ret = "Ok"
    /\ last.arg # Some(last.c)
    /\ registry.woken = {last.c, last.arg[1]}
\* C19: an operation on one connector leaves every registry entry that it did
\* not insert itself in its slot and unchanged, also when the connector holds
\* a stale handle whose slot now belongs to another entry.
C19_OtherEntriesUntouched ==
    [][(nops' = nops + 1 /\ last'.c \in Connectors)
          => \A i \in OccupiedSlots(registry) :
                registry.items[i].value[1].by # last'.c
                    => (/\ i \in 1..Len(registry'.items)
                        /\ registry'.items[i] = registry.items[i])]_vars

\* A setter ran on a connector whose handle is stale and whose slot now holds
\* the joint of the other connector, which does not show the value set.
C19_Witness ==
    /\ last.op = "set_local_anchor1"
    /\ last.arg = Some(1)
    /\ conn[last.c].handle # None
    /\ ~ArenaContains(registry, conn[last.c].handle[1])
    /\ conn[last.c].handle[1].index \in OccupiedSlots(registry)
    /\ registry.items[conn[last.c].handle[1].index].value[1].by \in Connectors \ {last.c}
    /\ registry.items[conn[last.c].handle[1].index].value[1].data.local_anchor1 = Origin

\* C20: disconnect and delete leave the four cached values as they were, and a
\* successful try_connect_to to the same peer right after a disconnect gives a
\* joint equal to the one joint() showed before the disconnect.
C20_ReconnectRestoresJoint ==
    [][/\ (Called("disconnect") \/ Called("delete"))
            => \A f \in Fields : conn'[last'.c][f] = conn[last'.c][f]
       /\ (Called("disconnect") /\ joint(conn[last'.c], registry) # None)
            => LET peer == conn[last'.c].connected[1]
                   r == try_connect_to(conn'[last'.c], registry', peer)
               IN  r.ret = "Ok"
                     => (/\ joint(r.conn, r.reg) # None
                         /\ joint(r.conn, r.reg) = joint(conn[last'.c], registry)
                         /\ r.conn.connected = Some(peer))]_vars

\* Three operations, the last a disconnect that removed the joint: the other
\* two were this connector's connect and a setter giving a non-default anchor.
C20_Witness ==
    /\ nops = 3
    /\ last.op = "disconnect"
    /\ registry.generation = 1
    /\ Len(registry.items) = 1
    /\ conn[last.c].local_anchor1 # Origin
    /\ conn[last.c].handle = None
====
